---------------------------- MODULE Spec2Model ----------------------------
(***************************************************************************)
(* Model of the contact-form email relay of portfolio-2.0-cdk:             *)
(* lambda/index.js (exports.handler and its helpers).                      *)
(*                                                                         *)
(* One Node.js process serves invocations one after another.  An           *)
(* invocation is suspended only at its two awaits (sm.getSecretValue and   *)
(* resend.emails.send); the code between two awaits is one atomic step.    *)
(*                                                                         *)
(* JavaScript values are records [t |-> type tag, v |-> String(value)];    *)
(* objects whose properties matter carry them in a third field, props.     *)
(* The secret store and the email API are collaborators: each call either  *)
(* resolves or rejects, chosen nondeterministically.                       *)
(***************************************************************************)
EXTENDS Integers, Sequences, FiniteSets

VARIABLES
    env,          \* process.env.RESEND_API_KEY_SECRET_NAME
    pc,           \* position of the current invocation
    event,        \* the event of the current invocation
    origin,       \* handler local `origin`
    key,          \* handler local `key` (secret.SecretString)
    resend,       \* handler local `resend` (the client built from key)
    response,     \* the value the handler's promise resolved to
    thrown,       \* the value the handler's promise rejected with
    trace,        \* collaborator calls and helper steps of this invocation
    invocations,  \* invocations started so far in this process
    outbox,       \* every request the email API received, in order
    succeeded,    \* invocations that returned the success response
    inv,          \* the invocations in flight together, one record each
    deployment    \* how the function was deployed, and the environment it was given

vars == <<env, pc, event, origin, key, resend, response, thrown, trace,
          invocations, outbox, succeeded, inv, deployment>>

\* Number of invocations one behaviour of the model runs.
MaxInvocations == 2

\* Number of invocations that may be in flight together.
MaxConcurrent == 3

-----------------------------------------------------------------------------
(* JavaScript values *)

Undefined == [t |-> "undefined", v |-> "undefined"]
Null == [t |-> "null", v |-> "null"]
Str(s) == [t |-> "string", v |-> s]
Num(s) == [t |-> "number", v |-> s]
\* A plain object; String(o) is "[object Object]".
Obj(p) == [t |-> "object", v |-> "[object Object]", props |-> p]
\* {}: an object with no properties of its own.
EmptyObj == [t |-> "object", v |-> "[object Object]"]
\* An array: typeof is 'object', and it has none of the named properties.
Arr == [t |-> "array", v |-> ""]
\* An Error object; v is what error.toString() gives.
Err(s) == [t |-> "error", v |-> s]

\* typeof x
TypeOf(x) ==
    IF x.t \in {"null", "object", "array", "error"} THEN "object" ELSE x.t

\* !!x
Truthy(x) ==
    CASE x.t \in {"undefined", "null"} -> FALSE
      [] x.t = "string" -> x.v # ""
      [] x.t = "number" -> x.v \notin {"0", "NaN"}
      [] x.t = "boolean" -> x.v = "true"
      [] OTHER -> TRUE

\* a || b
Or(a, b) == IF Truthy(a) THEN a ELSE b

\* x.p, for an x that is neither undefined nor null
Get(x, p) ==
    IF "props" \in DOMAIN x /\ p \in DOMAIN x.props THEN x.props[p] ELSE Undefined

\* x.p throws a TypeError when x is undefined or null
CanRead(x) == x.t \notin {"undefined", "null"}

\* `${x}` and error.toString()
String(x) == x.v

\* The outcome of a call that may throw.
Ok(x) == [ok |-> TRUE, value |-> x, error |-> Null]
Throw(s) == [ok |-> FALSE, value |-> Undefined, error |-> Err(s)]

-----------------------------------------------------------------------------
(* JSON.parse on the request texts of the model *)

ValidText == "{\"name\":\"Alice\",\"email\":\"a@example.com\",\"message\":\"hi\"}"
NoMessageText == "{\"name\":\"Alice\",\"email\":\"a@example.com\"}"
EmptyNameText == "{\"name\":\"\",\"email\":\"a@example.com\",\"message\":\"hi\"}"
NumberNameText == "{\"name\":42,\"email\":\"a@example.com\",\"message\":\"hi\"}"
MalformedText == "{not json"

\* The object a contact form submits.
Contact(name, email, message) ==
    Obj([name |-> name, email |-> email, message |-> message])

Alice == Str("Alice")
AliceEmail == Str("a@example.com")
Hi == Str("hi")

\* JSON.parse(text): the value the text denotes, or a SyntaxError.
JSONparse(text) ==
    CASE text = ValidText -> Ok(Contact(Alice, AliceEmail, Hi))
      [] text = NoMessageText -> Ok(Contact(Alice, AliceEmail, Undefined))
      [] text = EmptyNameText -> Ok(Contact(Str(""), AliceEmail, Hi))
      [] text = NumberNameText -> Ok(Contact(Num("42"), AliceEmail, Hi))
      [] text = "null" -> Ok(Null)
      [] text = "42" -> Ok(Num("42"))
      [] text = "[]" -> Ok(Arr)
      [] text = "\"hello\"" -> Ok(Str("hello"))
      [] text = "" -> Throw("SyntaxError: Unexpected end of JSON input")
      [] OTHER -> Throw("SyntaxError: Unexpected token n in JSON at position 1")

-----------------------------------------------------------------------------
(* The inputs: events, collaborator outcomes *)

Texts ==
    {ValidText, NoMessageText, EmptyNameText, NumberNameText, MalformedText,
     "null", "42", "[]", "\"hello\"", ""}

\* What a field of a submitted object may hold besides a non-empty string:
\* the falsy values, and values that are truthy without being strings.
FalsyFieldValues == {Undefined, Null, Str(""), Num("0")}
OtherFieldValues == FalsyFieldValues \cup {Num("42"), EmptyObj}

\* Contact objects: the valid one, and each single-field deviation from it.
Contacts ==
    {Contact(Alice, AliceEmail, Hi), EmptyObj}
    \cup {Contact(x, AliceEmail, Hi) : x \in OtherFieldValues}
    \cup {Contact(Alice, x, Hi) : x \in FalsyFieldValues}
    \cup {Contact(Alice, AliceEmail, x) : x \in FalsyFieldValues}

Bodies ==
    {Undefined, Null, Num("42"), Arr}
    \cup {Str(s) : s \in Texts}
    \cup Contacts

\* event.headers of a request: a map that may hold origin / Origin.
HeaderMaps ==
    {EmptyObj,
     Obj([origin |-> Str("https://evil.example")]),
     Obj([Origin |-> Str("https://christopher-fiallos.com")])}

Http(method) == Obj([method |-> Str(method)])

Methods == {"OPTIONS", "POST", "GET"}

\* The events of HTTP requests: a headers map, a method and a body.
Requests ==
    [headers : HeaderMaps,
     requestContext : {Obj([http |-> Http(m)]) : m \in Methods},
     body : Bodies]

\* Events that are no HTTP request: headers, requestContext or
\* requestContext.http is absent.
MalformedEvents ==
    [headers : {Undefined},
     requestContext : {Undefined, Obj([http |-> Http("POST")]), Obj([http |-> Http("OPTIONS")])},
     body : {Undefined, Str(ValidText)}]
    \cup [headers : {EmptyObj},
          requestContext : {Undefined, EmptyObj},
          body : {Undefined, Str(ValidText)}]

Events == Requests \cup MalformedEvents

\* The environment variables of a function: <<name, value>> pairs.
\* process.env[name] is undefined for a name that is not among them.
ProcessEnv(environment, name) ==
    IF \E p \in environment : p[1] = name
    THEN (CHOOSE p \in environment : p[1] = name)[2]
    ELSE Undefined

\* The `environment` of emailFunction in the PorfolioStack constructor;
\* synthKey is process.env.RESEND_API_KEY where the stack is synthesised.
emailFunctionEnvironment(synthKey) == {<<"RESEND_API_KEY", Or(synthKey, Str(""))>>}

\* new PorfolioStack(app, id, { environment: stage, ... }): the deployed
\* function and its environment, which is the same for both stages.
PorfolioStack(id, stage, synthKey) ==
    [stack |-> id, stage |-> stage, environment |-> emailFunctionEnvironment(synthKey)]

\* The two stacks of the app.
StackDeployments ==
    {PorfolioStack("DevPortfolioStack", "dev", k) : k \in {Undefined, Str("re_key_1")}}
    \cup {PorfolioStack("ProdPortfolioStack", "prod", k) : k \in {Undefined, Str("re_key_1")}}

\* The handler run outside the stacks, its environment set by hand.
HandDeployments ==
    {[stack |-> "none", stage |-> "none", environment |-> e] :
        e \in {{},
               {<<"RESEND_API_KEY_SECRET_NAME", Str("")>>},
               {<<"RESEND_API_KEY_SECRET_NAME", Str("resend-api-key")>>}}}

Deployments == StackDeployments \cup HandDeployments

\* The values process.env.RESEND_API_KEY_SECRET_NAME can have.
SecretNames == {Undefined, Str(""), Str("resend-api-key")}

\* secret.SecretString, as the secret store holds it at the time of a call.
SecretStrings == {"re_key_1", "re_key_2"}

\* What sm.getSecretValue rejects with.
FetchErrors ==
    {"ResourceNotFoundException: Secrets Manager can't find the specified secret.",
     "AccessDeniedException: not authorized to perform secretsmanager:GetSecretValue"}

\* What resend.emails.send rejects with.
DispatchErrors == {"Error: Unable to fetch data. The request could not be resolved."}

-----------------------------------------------------------------------------
(* The helpers of lambda/index.js *)

\* Mutant of SecretNameMissing: the guard compares with null only.
SecretNameIsNull(secretName) == secretName = Null

\* getResendApiKey: `if (!secretName)`.
SecretNameMissing(secretName) == ~Truthy(secretName)

ConfigError ==
    "Error: RESEND_API_KEY_SECRET_NAME is not set in the environment variables"

\* Mutant of NewResend: the client is built with a key kept from earlier.
NewResendCached(k) == [key |-> Str("re_key_1")]

\* new Resend(key): the client keeps the key it was built with.
NewResend(k) == [key |-> k]

\* sendEmail: the request handed to resend.emails.send.  html lists the four
\* interpolations of the template, in order.
sendEmail(client, body) ==
    [apiKey |-> client.key,
     from |-> "portfoliocontact@resend.dev",
     to |-> "fialloschris1@gmail.com",
     subject |-> "New Contact Form Submission",
     html |-> <<String(Get(body, "name")), String(Get(body, "name")),
                String(Get(body, "email")), String(Get(body, "message"))>>]

\* Mutant of parseEventBody: the already-parsed object is not accepted.
parseEventBodyStringsOnly(ev) ==
    IF TypeOf(ev.body) = "string"
    THEN JSONparse(ev.body.v)
    ELSE Throw("Error: Invalid event body")

\* parseEventBody
parseEventBody(ev) ==
    IF TypeOf(ev.body) = "string"
    THEN JSONparse(ev.body.v)
    ELSE IF TypeOf(ev.body) = "object"
         THEN Ok(ev.body)
         ELSE Throw("Error: Invalid event body")

\* Mutant of validateBody: message is not required.
validateBodyNoMessage(body) ==
    IF ~CanRead(body)
    THEN Throw("TypeError: Cannot destructure property 'name' of 'body' as it is null.")
    ELSE IF ~Truthy(Get(body, "name")) \/ ~Truthy(Get(body, "email"))
         THEN Throw("Error: Missing required fields")
         ELSE Ok(body)

\* validateBody.  Destructuring null or undefined throws a TypeError.
validateBody(body) ==
    IF ~CanRead(body)
    THEN Throw(IF body.t = "null"
               THEN "TypeError: Cannot destructure property 'name' of 'body' as it is null."
               ELSE "TypeError: Cannot destructure property 'name' of 'body' as it is undefined.")
    ELSE IF \/ ~Truthy(Get(body, "name"))
            \/ ~Truthy(Get(body, "email"))
            \/ ~Truthy(Get(body, "message"))
         THEN Throw("Error: Missing required fields")
         ELSE Ok(body)

\* JSON.stringify({ message, ...(error && { error: error.toString() }) }):
\* the JSON text, written as the list of its members in the order they are
\* serialised, each a <<key, string value>> pair.
JsonBody(message, error) ==
    IF Truthy(error)
    THEN <<(<<"message", message>>), (<<"error", String(error)>>)>>
    ELSE <<(<<"message", message>>)>>

\* The headers literal of createResponse.
CorsHeaders ==
    [h \in {"Access-Control-Allow-Headers", "Access-Control-Allow-Methods"} |->
        IF h = "Access-Control-Allow-Headers" THEN "Content-Type" ELSE "POST, OPTIONS"]

\* Mutant of createResponse: the captured origin is echoed in the headers.
createResponseEchoOrigin(statusCode, message, error, org) ==
    [statusCode |-> statusCode,
     headers |->
        IF Truthy(org)
        THEN [h \in DOMAIN CorsHeaders \cup {"Access-Control-Allow-Origin"} |->
                 IF h \in DOMAIN CorsHeaders THEN CorsHeaders[h] ELSE String(org)]
        ELSE CorsHeaders,
     body |-> JsonBody(message, error)]

\* createResponse
createResponse(statusCode, message, error, org) ==
    [statusCode |-> statusCode,
     headers |-> CorsHeaders,
     body |-> JsonBody(message, error)]

\* event.headers.origin || event.headers.Origin
OriginOf(ev) == Or(Get(ev.headers, "origin"), Get(ev.headers, "Origin"))

\* Lines 74 and 77 run outside the try block: reading a property of an
\* absent headers map, requestContext or requestContext.http throws.
HeadEntryThrows(ev) ==
    \/ ~CanRead(ev.headers)
    \/ ~CanRead(ev.requestContext)
    \/ ~CanRead(Get(ev.requestContext, "http"))

HeadEntryError(ev) ==
    IF ~CanRead(ev.headers)
    THEN Err("TypeError: Cannot read properties of undefined (reading 'origin')")
    ELSE IF ~CanRead(ev.requestContext)
         THEN Err("TypeError: Cannot read properties of undefined (reading 'http')")
         ELSE Err("TypeError: Cannot read properties of undefined (reading 'method')")

\* event.requestContext.http.method
MethodOf(ev) == Get(Get(ev.requestContext, "http"), "method")

\* Mutant of IsPreflight: the method is compared in the wrong case.
IsPreflightLowercase(method) == method = Str("options")

\* event.requestContext.http.method === 'OPTIONS'
IsPreflight(method) == method = Str("OPTIONS")

-----------------------------------------------------------------------------
(* The trace of one invocation *)

Call(step) == [step |-> step, kind |-> "call"]
Done(step) == [step |-> step, kind |-> "ok"]
Failed(step) == [step |-> step, kind |-> "err"]

StepsOf(tr, step, kind) ==
    {i \in DOMAIN tr : tr[i].step = step /\ tr[i].kind = kind}

\* The members of a response body with the given key.
Members(body, k) == {i \in DOMAIN body : body[i][1] = k}
HasMember(body, k) == Members(body, k) # {}
Member(body, k) == body[CHOOSE i \in Members(body, k) : TRUE][2]

-----------------------------------------------------------------------------
(* The state machine *)

\* The value of `event` while no invocation is running.
NoEvent == [headers |-> Undefined, requestContext |-> Undefined, body |-> Undefined]

\* The invocations that may be in flight together.
Slots == 1..MaxConcurrent

\* An invocation that has not started: its locals, its outcome, and what
\* its own collaborator calls answered (fetched, dispatched) and were
\* handed (sent).
IdleInv ==
    [pc |-> "idle", event |-> NoEvent, origin |-> Undefined, key |-> Undefined,
     resend |-> Undefined, response |-> Undefined, thrown |-> Undefined,
     trace |-> <<>>, fetched |-> Undefined, dispatched |-> Undefined,
     sent |-> Undefined]

Init ==
    /\ inv = [i \in Slots |-> IdleInv]
    /\ deployment \in Deployments
    /\ env = ProcessEnv(deployment.environment, "RESEND_API_KEY_SECRET_NAME")
    /\ env \in SecretNames
    /\ pc = "idle"
    /\ event = NoEvent
    /\ origin = Undefined
    /\ key = Undefined
    /\ resend = Undefined
    /\ response = Undefined
    /\ thrown = Undefined
    /\ trace = <<>>
    /\ invocations = 0
    /\ outbox = <<>>
    /\ succeeded = 0

\* The runtime hands the process one event at a time.
Start(ev) ==
    /\ pc = "idle"
    /\ invocations < MaxInvocations
    /\ invocations' = invocations + 1
    /\ event' = ev
    /\ key' = Undefined
    /\ resend' = Undefined
    /\ UNCHANGED <<deployment, inv, env, outbox, succeeded>>

\* `return createResponse(...)`: the handler's promise resolves.
Return(resp) ==
    /\ pc' = "returned"
    /\ response' = resp
    /\ thrown' = Undefined

\* handler, lines 72-77, on an event whose headers, requestContext or
\* requestContext.http is absent: the TypeError leaves the handler.
InvokeMalformed(ev) ==
    /\ Start(ev)
    /\ HeadEntryThrows(ev)
    /\ origin' = IF CanRead(ev.headers) THEN OriginOf(ev) ELSE Undefined
    /\ pc' = "thrown"
    /\ thrown' = HeadEntryError(ev)
    /\ response' = Undefined
    /\ trace' = <<>>

\* handler, lines 72-79: the preflight short-circuit.
InvokePreflight(ev) ==
    /\ Start(ev)
    /\ ~HeadEntryThrows(ev)
    /\ IsPreflight(MethodOf(ev))
    /\ origin' = OriginOf(ev)
    /\ Return(createResponse(200, "Preflight request successful", Null, origin'))
    /\ trace' = <<>>

\* handler, lines 72-82 and 89-91, with getResendApiKey, lines 7-12: the
\* secret name is not set, the error is caught.
InvokeConfigError(ev) ==
    /\ Start(ev)
    /\ ~HeadEntryThrows(ev)
    /\ ~IsPreflight(MethodOf(ev))
    /\ SecretNameMissing(env)
    /\ origin' = OriginOf(ev)
    /\ Return(createResponse(500, "Internal server error", Err(ConfigError), origin'))
    /\ trace' = <<>>

\* handler, lines 72-82, with getResendApiKey, lines 7-15: the call of
\* sm.getSecretValue, at which the invocation is suspended.
InvokeFetch(ev) ==
    /\ Start(ev)
    /\ ~HeadEntryThrows(ev)
    /\ ~IsPreflight(MethodOf(ev))
    /\ ~SecretNameMissing(env)
    /\ origin' = OriginOf(ev)
    /\ pc' = "awaitSecret"
    /\ response' = Undefined
    /\ thrown' = Undefined
    /\ trace' = <<Call("getSecretValue")>>

\* getResendApiKey, lines 17-19, and handler, lines 89-91.
SecretRejected(e) ==
    /\ pc = "awaitSecret"
    /\ trace' = Append(trace, Failed("getSecretValue"))
    /\ Return(createResponse(500, "Internal server error", Err(e), origin))
    /\ UNCHANGED <<deployment, inv, env, event, origin, key, resend, invocations, outbox, succeeded>>

\* getResendApiKey, line 16, and handler, lines 82-84 and 89-91: the body
\* does not parse.
ResolvedParseFails(s) ==
    /\ pc = "awaitSecret"
    /\ key' = Str(s)
    /\ resend' = NewResend(key')
    /\ ~parseEventBody(event).ok
    /\ trace' = trace \o <<Done("getSecretValue"), Failed("parseEventBody")>>
    /\ Return(createResponse(500, "Internal server error",
                             parseEventBody(event).error, origin))
    /\ UNCHANGED <<deployment, inv, env, event, origin, invocations, outbox, succeeded>>

\* handler, lines 82-85 and 89-91: the parsed body does not validate.
ResolvedValidationFails(s) ==
    /\ pc = "awaitSecret"
    /\ key' = Str(s)
    /\ resend' = NewResend(key')
    /\ parseEventBody(event).ok
    /\ ~validateBody(parseEventBody(event).value).ok
    /\ trace' = trace \o <<Done("getSecretValue"), Done("parseEventBody"),
                           Failed("validateBody")>>
    /\ Return(createResponse(500, "Internal server error",
                             validateBody(parseEventBody(event).value).error, origin))
    /\ UNCHANGED <<deployment, inv, env, event, origin, invocations, outbox, succeeded>>

\* handler, lines 82-86, with sendEmail: the call of resend.emails.send, at
\* which the invocation is suspended.
ResolvedDispatch(s) ==
    /\ pc = "awaitSecret"
    /\ key' = Str(s)
    /\ resend' = NewResend(key')
    /\ parseEventBody(event).ok
    /\ validateBody(parseEventBody(event).value).ok
    /\ trace' = trace \o <<Done("getSecretValue"), Done("parseEventBody"),
                           Done("validateBody"), Call("emails.send")>>
    /\ outbox' = Append(outbox,
                        sendEmail(resend', validateBody(parseEventBody(event).value).value))
    /\ pc' = "awaitSend"
    /\ UNCHANGED <<deployment, inv, env, event, origin, response, thrown, invocations, succeeded>>

\* handler, lines 86-88.
SendResolved ==
    /\ pc = "awaitSend"
    /\ trace' = Append(trace, Done("emails.send"))
    /\ Return(createResponse(200, "Email sent successfully", Null, origin))
    /\ succeeded' = succeeded + 1
    /\ UNCHANGED <<deployment, inv, env, event, origin, key, resend, invocations, outbox>>

\* Mutant of SendRejected: a failed dispatch is tried once more.
SendRejectedRetry(e) ==
    /\ pc = "awaitSend"
    /\ IF Cardinality(StepsOf(trace, "emails.send", "call")) < 2
       THEN /\ trace' = trace \o <<Failed("emails.send"), Call("emails.send")>>
            /\ outbox' = Append(outbox, outbox[Len(outbox)])
            /\ UNCHANGED <<pc, response, thrown>>
       ELSE /\ trace' = Append(trace, Failed("emails.send"))
            /\ Return(createResponse(500, "Internal server error", Err(e), origin))
            /\ UNCHANGED outbox
    /\ UNCHANGED <<deployment, inv, env, event, origin, key, resend, invocations, succeeded>>

\* handler, lines 86 and 89-91.
SendRejected(e) ==
    /\ pc = "awaitSend"
    /\ trace' = Append(trace, Failed("emails.send"))
    /\ Return(createResponse(500, "Internal server error", Err(e), origin))
    /\ UNCHANGED <<deployment, inv, env, event, origin, key, resend, invocations, outbox, succeeded>>

\* The handler's promise has settled: the runtime reports the outcome, and
\* the locals of the invocation are gone.
Settle ==
    /\ pc \in {"returned", "thrown"}
    /\ pc' = "idle"
    /\ event' = NoEvent
    /\ origin' = Undefined
    /\ key' = Undefined
    /\ resend' = Undefined
    /\ response' = Undefined
    /\ thrown' = Undefined
    /\ trace' = <<>>
    /\ UNCHANGED <<deployment, inv, env, invocations, outbox, succeeded>>

\* exports.handler, from its call to its first await or its return.
Invoke(ev) ==
    \/ InvokeMalformed(ev)
    \/ InvokePreflight(ev)
    \/ InvokeConfigError(ev)
    \/ InvokeFetch(ev)

Next ==
    \/ \E ev \in Events : Invoke(ev)
    \/ \E e \in FetchErrors : SecretRejected(e)
    \/ \E s \in SecretStrings : ResolvedParseFails(s)
    \/ \E s \in SecretStrings : ResolvedValidationFails(s)
    \/ \E s \in SecretStrings : ResolvedDispatch(s)
    \/ SendResolved
    \/ \E e \in DispatchErrors : SendRejected(e)
    \/ Settle

Spec == Init /\ [][Next]_vars

-----------------------------------------------------------------------------
(* Invocations in flight together.  Each step of the handler is a function  *)
(* of the invocation's own record, of process.env and of the answer of the  *)
(* collaborator call it was waiting for.                                    *)

\* handler, lines 72-82, with getResendApiKey, lines 7-15.
Enter(ev) ==
    IF HeadEntryThrows(ev)
    THEN [IdleInv EXCEPT !.event = ev, !.pc = "thrown",
                         !.origin = IF CanRead(ev.headers) THEN OriginOf(ev) ELSE Undefined,
                         !.thrown = HeadEntryError(ev)]
    ELSE IF IsPreflight(MethodOf(ev))
    THEN [IdleInv EXCEPT !.event = ev, !.pc = "returned", !.origin = OriginOf(ev),
                         !.response = createResponse(200, "Preflight request successful",
                                                     Null, OriginOf(ev))]
    ELSE IF SecretNameMissing(env)
    THEN [IdleInv EXCEPT !.event = ev, !.pc = "returned", !.origin = OriginOf(ev),
                         !.response = createResponse(500, "Internal server error",
                                                     Err(ConfigError), OriginOf(ev))]
    ELSE [IdleInv EXCEPT !.event = ev, !.pc = "awaitSecret", !.origin = OriginOf(ev),
                         !.trace = <<Call("getSecretValue")>>]

\* getResendApiKey, lines 17-19, and handler, lines 89-91.
FetchRejectedIn(r, e) ==
    [r EXCEPT !.pc = "returned",
              !.trace = Append(r.trace, Failed("getSecretValue")),
              !.response = createResponse(500, "Internal server error", Err(e), r.origin)]

\* handler, lines 82-86 and 89-91, once getResendApiKey returned k.
FetchResolvedIn(r, k) ==
    LET parsed == parseEventBody(r.event)
        validated == validateBody(parsed.value)
        r1 == [r EXCEPT !.key = k, !.resend = NewResend(k)]
    IN  IF ~parsed.ok
        THEN [r1 EXCEPT !.pc = "returned",
                        !.trace = r.trace \o <<Done("getSecretValue"),
                                               Failed("parseEventBody")>>,
                        !.response = createResponse(500, "Internal server error",
                                                    parsed.error, r.origin)]
        ELSE IF ~validated.ok
        THEN [r1 EXCEPT !.pc = "returned",
                        !.trace = r.trace \o <<Done("getSecretValue"),
                                               Done("parseEventBody"),
                                               Failed("validateBody")>>,
                        !.response = createResponse(500, "Internal server error",
                                                    validated.error, r.origin)]
        ELSE [r1 EXCEPT !.pc = "awaitSend",
                        !.trace = r.trace \o <<Done("getSecretValue"),
                                               Done("parseEventBody"),
                                               Done("validateBody"),
                                               Call("emails.send")>>,
                        !.sent = sendEmail(r1.resend, validated.value)]

\* handler, lines 86-88.
SendResolvedIn(r) ==
    [r EXCEPT !.pc = "returned",
              !.trace = Append(r.trace, Done("emails.send")),
              !.response = createResponse(200, "Email sent successfully", Null, r.origin)]

\* handler, lines 86 and 89-91.
SendRejectedIn(r, e) ==
    [r EXCEPT !.pc = "returned",
              !.trace = Append(r.trace, Failed("emails.send")),
              !.response = createResponse(500, "Internal server error", Err(e), r.origin)]

\* The events the interleaved invocations are given.
ConcurrentEvents ==
    [headers : {EmptyObj},
     requestContext : {Obj([http |-> Http("POST")])},
     body : {Str(ValidText), Str(NumberNameText)}]
    \cup {[headers |-> EmptyObj, requestContext |-> Obj([http |-> Http("OPTIONS")]),
           body |-> Str(ValidText)]}

\* What sm.getSecretValue rejects with, for the interleaved invocations.
ConcurrentFetchErrors ==
    {"ResourceNotFoundException: Secrets Manager can't find the specified secret."}

\* The variables of the one-at-a-time machine, which stay as they are.
seqVars == <<deployment, env, pc, event, origin, key, resend, response, thrown, trace,
             invocations, succeeded>>

\* Mutant of AwaitedKey: the key is kept at module scope and reused by
\* whichever invocation comes next.
AwaitedKeyShared(i, s) ==
    IF \E j \in Slots \ {i} : inv[j].key # Undefined
    THEN inv[CHOOSE j \in Slots \ {i} : inv[j].key # Undefined].key
    ELSE Str(s)

\* `const key = await getResendApiKey()`: the SecretString that the call of
\* invocation i itself returned.
AwaitedKey(i, s) == Str(s)

\* Invocation i starts on event ev.
CInvoke(i, ev) ==
    /\ inv[i].pc = "idle"
    /\ inv' = [inv EXCEPT ![i] = Enter(ev)]
    /\ UNCHANGED <<seqVars, outbox>>

\* The getSecretValue call of invocation i rejects.
CSecretRejected(i, e) ==
    /\ inv[i].pc = "awaitSecret"
    /\ inv' = [inv EXCEPT ![i] = FetchRejectedIn([inv[i] EXCEPT !.fetched = Err(e)], e)]
    /\ UNCHANGED <<seqVars, outbox>>

\* The getSecretValue call of invocation i resolves; the invocation runs on
\* to its return or to the call of emails.send.
CSecretResolved(i, s) ==
    /\ inv[i].pc = "awaitSecret"
    /\ inv' = [inv EXCEPT ![i] =
                  FetchResolvedIn([inv[i] EXCEPT !.fetched = Str(s)], AwaitedKey(i, s))]
    /\ outbox' = IF inv'[i].pc = "awaitSend" THEN Append(outbox, inv'[i].sent) ELSE outbox
    /\ UNCHANGED seqVars

\* The emails.send call of invocation i resolves.
CSendResolved(i) ==
    /\ inv[i].pc = "awaitSend"
    /\ inv' = [inv EXCEPT ![i] = SendResolvedIn([inv[i] EXCEPT !.dispatched = Str("ok")])]
    /\ UNCHANGED <<seqVars, outbox>>

\* The emails.send call of invocation i rejects.
CSendRejected(i, e) ==
    /\ inv[i].pc = "awaitSend"
    /\ inv' = [inv EXCEPT ![i] = SendRejectedIn([inv[i] EXCEPT !.dispatched = Err(e)], e)]
    /\ UNCHANGED <<seqVars, outbox>>

NextConcurrent ==
    \E i \in Slots :
        \/ \E ev \in ConcurrentEvents : CInvoke(i, ev)
        \/ \E e \in ConcurrentFetchErrors : CSecretRejected(i, e)
        \/ \E s \in SecretStrings : CSecretResolved(i, s)
        \/ CSendResolved(i)
        \/ \E e \in DispatchErrors : CSendRejected(i, e)

SpecConcurrent == Init /\ [][NextConcurrent]_vars

-----------------------------------------------------------------------------
(* Vocabulary of the properties *)

\* An invocation is in progress or has just settled.
Running == pc # "idle"

\* The event is an HTTP request: it has a headers map and a method.
IsRequest == event \in Requests

RequestMethod == event.requestContext.props.http.props.method.v

NonOptionsRequest == Running /\ IsRequest /\ RequestMethod # "OPTIONS"

\* The secret-name environment variable holds a name.
SecretNameSet == env.t = "string" /\ env.v # ""

SmCalls == Cardinality(StepsOf(trace, "getSecretValue", "call"))
SendCalls == Cardinality(StepsOf(trace, "emails.send", "call"))
InTrace(entry) == \E i \in DOMAIN trace : trace[i] = entry

Status == response.statusCode
Message == Member(response.body, "message")
HasError == HasMember(response.body, "error")

\* The value the request body deserialises to, when it does.
Deserialises(b) == IF b.t = "string" THEN JSONparse(b.v).ok ELSE b.t \in {"object", "array", "null"}
Deserialised(b) == IF b.t = "string" THEN JSONparse(b.v).value ELSE b

FieldOf(c, f) ==
    IF "props" \in DOMAIN c /\ f \in DOMAIN c.props THEN c.props[f] ELSE Undefined

IsFalsy(x) ==
    \/ x.t \in {"undefined", "null"}
    \/ x.t = "string" /\ x.v = ""
    \/ x.t = "number" /\ x.v \in {"0", "NaN"}
    \/ x.t = "boolean" /\ x.v = "false"

IsNonEmptyString(x) == x.t = "string" /\ x.v # ""

Fields == {"name", "email", "message"}

\* The body carries non-empty name, email and message.
CarriesContact(b) ==
    /\ Deserialises(b)
    /\ \A f \in Fields : IsNonEmptyString(FieldOf(Deserialised(b), f))

\* The parsed body lacks one of the three fields, or has it falsy.
LacksField(b) ==
    /\ Deserialises(b)
    /\ \E f \in Fields : IsFalsy(FieldOf(Deserialised(b), f))

-----------------------------------------------------------------------------
(* Properties *)

\* C1: every invocation of handler ends in exactly one response and never
\* throws past its own boundary, also on an event whose headers map or
\* requestContext is absent.
C1_NeverThrowsPastBoundary ==
    pc \in {"returned", "thrown"} =>
        /\ pc = "returned"
        /\ thrown = Undefined
        /\ response # Undefined
        /\ Status \in {200, 500}

\* C2: a request whose method is OPTIONS gets statusCode 200 with message
\* "Preflight request successful", whatever its body and the configuration,
\* and the invocation calls neither the secret store nor the email API and
\* never parses the body.
C2_Preflight ==
    (Running /\ IsRequest /\ RequestMethod = "OPTIONS") =>
        /\ pc = "returned"
        /\ Status = 200
        /\ Message = "Preflight request successful"
        /\ ~HasError
        /\ trace = <<>>

C2_Witness ==
    /\ pc = "returned"
    /\ IsRequest
    /\ RequestMethod = "OPTIONS"
    /\ event.body = Str(ValidText)
    /\ env = Undefined
    /\ Status = 200

\* C3: a non-OPTIONS request whose body, a JSON string or an object, carries
\* non-empty name, email and message gets statusCode 200 with message
\* "Email sent successfully" and no error field, when the secret name is set
\* and neither the secret store nor the email API fails.
C3_ValidRequestSucceeds ==
    (/\ NonOptionsRequest
     /\ CarriesContact(event.body)
     /\ SecretNameSet
     /\ pc \in {"returned", "thrown"}
     /\ ~InTrace(Failed("getSecretValue"))
     /\ ~InTrace(Failed("emails.send"))) =>
        /\ pc = "returned"
        /\ Status = 200
        /\ Message = "Email sent successfully"
        /\ ~HasError

C3_Witness ==
    /\ pc = "returned"
    /\ NonOptionsRequest
    /\ event.body = Contact(Alice, AliceEmail, Hi)
    /\ InTrace(Done("emails.send"))
    /\ Status = 200

\* C4: a non-OPTIONS request whose parsed body lacks name, email or message,
\* or has one of them falsy, gets statusCode 500 with an error field, and
\* the email API is not called in that invocation.
C4_InvalidBodyIs500 ==
    (NonOptionsRequest /\ LacksField(event.body)) =>
        /\ SendCalls = 0
        /\ pc \in {"awaitSecret", "returned"}
        /\ pc = "returned" => (Status = 500 /\ HasError)

C4_Witness ==
    /\ pc = "returned"
    /\ NonOptionsRequest
    /\ event.body = Str(NoMessageText)
    /\ InTrace(Failed("validateBody"))
    /\ Status = 500
    /\ Member(response.body, "error") = "Error: Missing required fields"

\* C5: a non-OPTIONS request whose body is neither a string nor a structured
\* object (a number, a missing body, null) fails in body parsing: statusCode
\* 500 with the error text "Invalid event body".
C5_NonObjectBodyIsParseError ==
    (/\ NonOptionsRequest
     /\ event.body.t \in {"number", "undefined", "null"}
     /\ pc = "returned"
     /\ InTrace(Done("getSecretValue"))) =>
        /\ Status = 500
        /\ HasError
        /\ Member(response.body, "error") = "Error: Invalid event body"
        /\ InTrace(Failed("parseEventBody"))
        /\ SendCalls = 0

\* C6: with the secret-name environment variable unset, a non-OPTIONS
\* request gets statusCode 500, and the invocation never calls the secret
\* store, never parses or validates the body and never calls the email API.
C6_UnsetSecretName ==
    (NonOptionsRequest /\ env = Undefined) =>
        /\ pc = "returned"
        /\ Status = 500
        /\ HasError
        /\ trace = <<>>

C6_Witness ==
    /\ pc = "returned"
    /\ NonOptionsRequest
    /\ env = Undefined
    /\ event.body = Str(ValidText)
    /\ Member(response.body, "error") = ConfigError

\* C7: one invocation calls the secret store at most once and the email API
\* at most once; a failed fetch or a failed dispatch is not retried but ends
\* the invocation with the failure response; an invocation that returns the
\* success response has called the email API exactly once; over successive
\* invocations there is one dispatch per dispatching invocation, none
\* deduplicated.
C7_OneCallPerInvocation ==
    /\ SmCalls <= 1
    /\ SendCalls <= 1
    /\ \A i \in DOMAIN trace :
          trace[i].kind = "err" =>
              /\ i = Len(trace)
              /\ pc = "returned"
              /\ Status = 500
    /\ (pc = "returned" /\ Status = 200 /\ Message = "Email sent successfully") =>
          SendCalls = 1
    /\ succeeded <= Len(outbox)
    /\ Len(outbox) <= invocations
    /\ pc = "awaitSend" => Len(outbox) >= succeeded + 1

\* The same valid request, served twice: two successes, two dispatches.
C7_Witness ==
    /\ pc = "returned"
    /\ invocations = 2
    /\ succeeded = 2
    /\ Len(outbox) = 2
    /\ outbox[1] = outbox[2]
    /\ event.body = Str(ValidText)

\* C8: every response has statusCode 200 or 500, exactly the two fixed
\* headers (never Access-Control-Allow-Origin, whatever Origin the request
\* carried), a body with a message field, and an error field exactly when
\* the statusCode is 500.
C8_ResponseShape ==
    pc = "returned" =>
        /\ Status \in {200, 500}
        /\ DOMAIN response.headers =
              {"Access-Control-Allow-Headers", "Access-Control-Allow-Methods"}
        /\ response.headers["Access-Control-Allow-Headers"] = "Content-Type"
        /\ response.headers["Access-Control-Allow-Methods"] = "POST, OPTIONS"
        /\ HasMember(response.body, "message")
        /\ HasError <=> Status = 500

C8_Witness ==
    /\ pc = "returned"
    /\ origin = Str("https://christopher-fiallos.com")
    /\ Status = 500
    /\ HasError

\* C9: the email API is called only for a body whose name, email and message
\* are all non-empty strings; a field that is a number, a boolean or a
\* nested object is a validation failure.
C9_OnlyStringsDispatched ==
    SendCalls > 0 =>
        \A f \in Fields : IsNonEmptyString(FieldOf(Deserialised(event.body), f))

\* The order in which a non-OPTIONS invocation runs its steps.
StepOrder ==
    <<Call("getSecretValue"), Done("getSecretValue"), Done("parseEventBody"),
      Done("validateBody"), Call("emails.send"), Done("emails.send")>>

\* C10: a non-OPTIONS invocation runs credential retrieval, body parsing,
\* validation and dispatch in this order, each only after the previous one
\* succeeded: the secret store is called before the body is parsed, so also
\* for an invalid or unparseable body when the secret name is set; after a
\* failed fetch the body is not parsed; the email API is called only after
\* fetch, parse and validation succeeded, with the credential fetched in the
\* same invocation.
C10_StepOrder ==
    /\ Len(trace) <= Len(StepOrder)
    /\ \A i \in DOMAIN trace :
          \/ trace[i] = StepOrder[i]
          \/ /\ i = Len(trace)
             /\ StepOrder[i].kind = "ok"
             /\ trace[i] = Failed(StepOrder[i].step)
    /\ (NonOptionsRequest /\ SecretNameSet) => SmCalls = 1
    /\ (NonOptionsRequest /\ SecretNameSet /\ pc = "returned") => Len(trace) >= 2
    /\ InTrace(Failed("getSecretValue")) => Len(trace) = 2
    /\ SendCalls > 0 =>
          /\ key \in {Str(s) : s \in SecretStrings}
          /\ outbox[Len(outbox)].apiKey = key

\* The secret was rotated between two invocations; the second one dispatches
\* with the key it fetched itself.
C10_Witness ==
    /\ pc = "awaitSend"
    /\ invocations = 2
    /\ Len(outbox) = 2
    /\ outbox[1].apiKey = Str("re_key_1")
    /\ key = Str("re_key_2")

\* Invocation i has settled.
Settled(i) == inv[i].pc \in {"returned", "thrown"}

\* The four interpolations of the email that the body of event ev calls for.
OwnHtml(ev) ==
    <<FieldOf(Deserialised(ev.body), "name").v, FieldOf(Deserialised(ev.body), "name").v,
      FieldOf(Deserialised(ev.body), "email").v, FieldOf(Deserialised(ev.body), "message").v>>

\* C11: under every interleaving of invocations, each suspended only at its
\* two awaits, the response of an invocation and the email it sends depend
\* only on its own event and on the answers of its own collaborator calls.
\* The email carries the key that the invocation's own fetch returned and
\* the fields of its own body; every non-OPTIONS invocation makes its own
\* secret-store call whatever the others have fetched; two invocations with
\* the same event and the same answers end the same, whatever the others
\* did or failed at in between.
C11_InvocationsIndependent ==
    /\ \A i \in Slots :
          /\ inv[i].sent # Undefined =>
                /\ inv[i].sent.apiKey = inv[i].fetched
                /\ inv[i].sent.html = OwnHtml(inv[i].event)
          /\ inv[i].key # Undefined => inv[i].key = inv[i].fetched
          /\ (/\ inv[i].pc # "idle"
              /\ inv[i].event \in Requests
              /\ inv[i].event.requestContext.props.http.props.method.v # "OPTIONS"
              /\ SecretNameSet) =>
                Cardinality(StepsOf(inv[i].trace, "getSecretValue", "call")) = 1
    /\ \A i, j \in Slots :
          (/\ Settled(i)
           /\ Settled(j)
           /\ inv[i].event = inv[j].event
           /\ inv[i].fetched = inv[j].fetched
           /\ inv[i].dispatched = inv[j].dispatched) =>
              /\ inv[i].pc = inv[j].pc
              /\ inv[i].response = inv[j].response
              /\ inv[i].thrown = inv[j].thrown
              /\ inv[i].sent = inv[j].sent

\* Three invocations interleaved: 3 dispatched before 1 with another key and
\* another body, 2 failed at its fetch, and 1 still succeeded with its own
\* key and body.
C11_Witness ==
    /\ \A i \in {1, 2, 3} : Settled(i)
    /\ inv[1].event.body = Str(ValidText)
    /\ inv[2].event.body = Str(ValidText)
    /\ inv[3].event.body = Str(NumberNameText)
    /\ inv[2].fetched.t = "error"
    /\ inv[2].response.statusCode = 500
    /\ inv[1].fetched = Str("re_key_2")
    /\ inv[3].fetched = Str("re_key_1")
    /\ inv[1].response.statusCode = 200
    /\ inv[3].response.statusCode = 200
    /\ outbox = <<inv[3].sent, inv[1].sent>>
    /\ inv[1].sent.apiKey = Str("re_key_2")

\* The function was deployed by one of the two stacks of the app.
DeployedByStack == deployment.stack \in {"DevPortfolioStack", "ProdPortfolioStack"}

\* C12: the environment that the stack gives the deployed email function
\* contains RESEND_API_KEY_SECRET_NAME, the variable the handler reads, so
\* a handler deployed by the dev or the prod stack does not answer a valid
\* contact request with the configuration error.
C12_DeployedFunctionHasSecretName ==
    (/\ DeployedByStack
     /\ pc = "returned"
     /\ NonOptionsRequest
     /\ CarriesContact(event.body)) =>
        /\ \E p \in deployment.environment : p[1] = "RESEND_API_KEY_SECRET_NAME"
        /\ SecretNameSet
        /\ ~(HasError /\ Member(response.body, "error") = ConfigError)

=============================================================================
